---------------------------- MODULE Spec2Model ----------------------------
(***************************************************************************)
(* Model of the response-suggestion retrieval path of the WhatsApp reply   *)
(* assistant backend:                                                      *)
(*   SimilarityService   (services/similarity, src/unnamed/part_000)       *)
(*   WhatsAppService     (services/whatsapp,   src/unnamed/part_000)       *)
(*   MessagesController  (controllers/messagesController, part_001)        *)
(*   EmbeddingService    (services/embedding, src/backend/src/server.js)   *)
(*   Database            (src/backend/src/models/database.js)              *)
(*                                                                         *)
(* Numbers: distances, similarities and thresholds are JavaScript doubles  *)
(* in the code; here they are integers counting hundredths (0.7 is 70).    *)
(* The values used (0, 0.2, 0.3, 0.8, ...) subtract from 1 exactly in      *)
(* IEEE-754 as they do here (1 - 0.3 === 0.7, 1 - 0.2 === 0.8).            *)
(***************************************************************************)
EXTENDS Integers, Sequences, FiniteSets, TLC

(***************************************************************************)
(* JavaScript values.  Values of mixed type are tagged records so that     *)
(* undefined, null, numbers and arrays can be compared with each other.    *)
(***************************************************************************)
Undefined == [t |-> "undefined"]
Null == [t |-> "null"]
NaN == [t |-> "NaN"]
Num(n) == [t |-> "number", v |-> n]
Arr(s) == [t |-> "array", v |-> s]
Bool(b) == [t |-> "boolean", v |-> b]
\* A string is the sequence of its characters.
Str(s) == [t |-> "string", v |-> s]

\* ToBoolean: undefined, null, NaN, 0 and false are falsy; arrays and
\* objects (also empty ones) are truthy.
Truthy(x) ==
    CASE x.t = "undefined" -> FALSE
      [] x.t = "null" -> FALSE
      [] x.t = "NaN" -> FALSE
      [] x.t = "number" -> x.v # 0
      [] x.t = "boolean" -> x.v
      [] x.t = "string" -> x.v # <<>>
      [] OTHER -> TRUE

\* a[i] for a JavaScript array a and a 0-based index i: undefined past the end.
\* (Sequences are 1-based, so element i of the code is element i + 1 here.)
At(a, i) == IF i + 1 \in 1..Len(a.v) THEN a.v[i + 1] ELSE Undefined

\* x < y of JavaScript for x null or a number and y a number:
\* null converts to 0 (ToNumber), a NaN operand makes the comparison false.
JsLess(x, y) ==
    CASE x.t = "null" -> 0 < y
      [] x.t = "number" -> x.v < y
      [] OTHER -> FALSE

\* Sequence helpers.
\* Variant of SelectNotNull that delivers the kept elements last-first.
RECURSIVE SelectNotNullReversed(_)
SelectNotNullReversed(s) ==
    IF s = <<>> THEN <<>>
    ELSE SelectNotNullReversed(Tail(s)) \o (IF Truthy(Head(s)) THEN <<Head(s)>> ELSE <<>>)

\* Array.prototype.filter(Boolean)
RECURSIVE SelectNotNull(_)
SelectNotNull(s) ==
    IF s = <<>> THEN <<>>
    ELSE IF Truthy(Head(s)) THEN <<Head(s)>> \o SelectNotNull(Tail(s))
    ELSE SelectNotNull(Tail(s))

Reverse(s) == [i \in 1..Len(s) |-> s[Len(s) + 1 - i]]

Min(a, b) == IF a <= b THEN a ELSE b

(***************************************************************************)
(* SimilarityService: configuration                                        *)
(***************************************************************************)
\* parseFloat(process.env.SIMILARITY_THRESHOLD || '0.7'), in hundredths
DefaultSimilarityThreshold == 70
\* parseInt(process.env.MAX_RESULTS || '3')
DefaultMaxResults == 3
\* the 1 of `1 - distances[index]`, in hundredths
One == 100

\* Values of SIMILARITY_THRESHOLD the model configures the service with.
ConfiguredThresholds == {50, DefaultSimilarityThreshold, 80}

(***************************************************************************)
(* SimilarityService.formatSimilarityResults(results, includeDistances)    *)
(*   results: [documents, metadatas, distances], each undefined or an      *)
(*   array whose element 0 is the list for the single query embedding.     *)
(*   Returns [t |-> "ok", v |-> list] or [t |-> "throw"] (a TypeError).    *)
(***************************************************************************)
Ok(v) == [t |-> "ok", v |-> v]
Throw(e) == [t |-> "throw", error |-> e]

\* `includeDistances && distances[index] ? 1 - distances[index] : null`
SimilarityOf(includeDistances, distance) ==
    IF includeDistances /\ Truthy(distance) THEN Num(One - distance.v) ELSE Null

\* Variant of BelowThreshold with the comparison turned round.
BelowThresholdReversed(includeDistances, similarity, threshold) ==
    includeDistances /\ similarity.t = "number" /\ threshold < similarity.v

\* The threshold test of the map callback: TRUE when the result is dropped.
BelowThreshold(includeDistances, similarity, threshold) ==
    includeDistances /\ JsLess(similarity, threshold)

\* One element of documents.map(...): the result object, or null.
FormatOne(doc, index, metadatas, distances, includeDistances, threshold) ==
    LET md == At(metadatas, index)
        result == [t |-> "object",
                   document |-> doc,
                   metadata |-> IF Truthy(md) THEN md ELSE [t |-> "object"],
                   similarity |-> SimilarityOf(includeDistances, At(distances, index))]
    IN IF BelowThreshold(includeDistances, result.similarity, threshold)
       THEN Null
       ELSE result

FormatSimilarityResults(results, includeDistances, threshold) ==
    IF ~Truthy(results.documents) \/ ~Truthy(At(results.documents, 0))
    THEN Ok(<<>>)
    ELSE
      LET documents == At(results.documents, 0)
      IN IF ~Truthy(results.metadatas)
         THEN Throw("TypeError")              \* results.metadatas[0] of undefined
         ELSE
           LET metadatas == At(results.metadatas, 0)
               distances == IF Truthy(results.distances)
                            THEN At(results.distances, 0)
                            ELSE Arr(<<>>)
           IN IF Len(documents.v) > 0 /\ (~Truthy(metadatas) \/ ~Truthy(distances))
              THEN Throw("TypeError")         \* metadatas[index] / distances[index] of undefined
              ELSE Ok(SelectNotNull(
                     [i \in 1..Len(documents.v) |->
                        FormatOne(documents.v[i], i - 1, metadatas, distances,
                                  includeDistances, threshold)]))

(***************************************************************************)
(* The vector index (ChromaDB collection), an external collaborator.       *)
(* A query answers with the neighbours that satisfy the `where` filter, at *)
(* most nResults of them, in an order of the index's choosing.             *)
(***************************************************************************)
\* Longest neighbour list an index response carries in the model.
MaxNeighbours == 2

\* Stored documents: b1, b2 were sent by the business, c1 by a customer.
Docs == {"b1", "b2", "c1"}
BusinessDocs == {"b1", "b2"}
\* Cosine distances of a neighbour to the query, in hundredths.
Distances == {0, 20, 30, 80}

Metadata(doc) == [t |-> "object", is_business_response |-> doc \in BusinessDocs]

\* where-clauses: {} and { is_business_response: { $eq: b } }
NoFilter == [t |-> "object"]
BusinessFilter == [t |-> "object", is_business_response |-> [eq |-> TRUE]]
CustomerFilter == [t |-> "object", is_business_response |-> [eq |-> FALSE]]

Matches(where, doc) ==
    IF "is_business_response" \in DOMAIN where
    THEN Metadata(doc).is_business_response = where.is_business_response.eq
    ELSE TRUE

\* Lists of distinct neighbours [doc, dist] of length at most n.
NeighbourLists(where, n) ==
    LET N == {nb \in [doc : Docs, dist : Distances] : Matches(where, nb.doc)}
    IN UNION {{s \in [1..k -> N] : \A i, j \in 1..k : i # j => s[i].doc # s[j].doc}
              : k \in 0..Min(n, MaxNeighbours)}

DocsOf(l) == Arr(<<Arr([i \in 1..Len(l) |-> l[i].doc])>>)
MetasOf(l) == Arr(<<Arr([i \in 1..Len(l) |-> Metadata(l[i].doc)])>>)
DistsOf(l) == Arr(<<Arr([i \in 1..Len(l) |-> Num(l[i].dist)])>>)

Results(documents, metadatas, distances) ==
    [t |-> "results", documents |-> documents, metadatas |-> metadatas,
     distances |-> distances]

\* What collection.query may resolve to.  A ChromaDB answer carries the three
\* included fields; the answers with fields left out are those the unit tests
\* feed the service (part_002 line 143: { documents: [[]] }).
QueryResponses(where, n) ==
    {Results(DocsOf(l), MetasOf(l), DistsOf(l)) : l \in NeighbourLists(where, n)}
    \cup {Results(DocsOf(l), MetasOf(l), Undefined) : l \in NeighbourLists(where, Min(n, 1))}
    \cup {Results(DocsOf(l), Undefined, Undefined) : l \in NeighbourLists(where, Min(n, 1))}
    \cup {Results(Undefined, Undefined, Undefined), Results(Arr(<<>>), Arr(<<>>), Arr(<<>>))}

(***************************************************************************)
(* String functions of the request handlers.                               *)
(***************************************************************************)
Whitespace == {" "}
Digits == {"0", "1", "2", "3", "4", "5", "6", "7", "8", "9"}
DigitValue(c) ==
    CASE c = "0" -> 0 [] c = "1" -> 1 [] c = "2" -> 2 [] c = "3" -> 3 [] c = "4" -> 4
      [] c = "5" -> 5 [] c = "6" -> 6 [] c = "7" -> 7 [] c = "8" -> 8 [] c = "9" -> 9

RECURSIVE TrimStart(_)
TrimStart(s) ==
    IF s # <<>> /\ Head(s) \in Whitespace THEN TrimStart(Tail(s)) ELSE s

\* String.prototype.trim on the characters of a string
Trim(s) == Reverse(TrimStart(Reverse(TrimStart(s))))

\* The longest prefix of s made of digits.
RECURSIVE DigitPrefix(_)
DigitPrefix(s) ==
    IF s # <<>> /\ Head(s) \in Digits THEN <<Head(s)>> \o DigitPrefix(Tail(s)) ELSE <<>>

RECURSIVE DigitsValue(_)
DigitsValue(s) ==
    IF s = <<>> THEN 0 ELSE DigitsValue(SubSeq(s, 1, Len(s) - 1)) * 10 + DigitValue(s[Len(s)])

\* parseInt(x): a number is returned as it is, a string gives the value of its
\* leading digits after leading whitespace and an optional sign, NaN when
\* there are none.
ParseInt(x) ==
    IF x.t = "number" THEN x
    ELSE LET s == TrimStart(x.v)
             signed == s # <<>> /\ Head(s) \in {"-", "+"}
             d == DigitPrefix(IF signed THEN Tail(s) ELSE s)
         IN IF d = <<>> THEN NaN
            ELSE IF signed /\ Head(s) = "-" THEN Num(0 - DigitsValue(d))
            ELSE Num(DigitsValue(d))

\* parseFloat(x) for a string, in hundredths: digits, then optionally a point
\* and digits (the model's strings carry at most two decimals).
ParseFloat(x) ==
    LET s == TrimStart(x.v)
        ip == DigitPrefix(s)
        rest == SubSeq(s, Len(ip) + 1, Len(s))
        fp == IF rest # <<>> /\ Head(rest) = "." THEN DigitPrefix(Tail(rest)) ELSE <<>>
        f2 == SubSeq(fp \o <<"0", "0">>, 1, 2)
    IN IF ip = <<>> /\ fp = <<>> THEN NaN
       ELSE Num(DigitsValue(ip) * One + DigitsValue(f2))

(***************************************************************************)
(* The message store (SQLite tables messages and chats).                   *)
(***************************************************************************)
Chats == {"chatA", "chatB"}
ChatName(jid) == IF jid = "chatA" THEN "Alice" ELSE "Bob"

\* The rows the suggestion path reads: three customer messages of two chats
\* and one message sent by the business.
FixtureMessages ==
    {[id |-> "m1", chat_jid |-> "chatA", timestamp |-> 1, is_from_me |-> 0],
     [id |-> "m2", chat_jid |-> "chatB", timestamp |-> 2, is_from_me |-> 0],
     [id |-> "m3", chat_jid |-> "chatA", timestamp |-> 2, is_from_me |-> 0],
     [id |-> "m4", chat_jid |-> "chatA", timestamp |-> 3, is_from_me |-> 1]}

\* The orders in which `ORDER BY timestamp DESC` may deliver the rows S:
\* SQLite leaves the order of rows with equal timestamps open.
OrderedByTimestampDesc(S) ==
    {s \in [1..Cardinality(S) -> S] :
        /\ \A i, j \in 1..Cardinality(S) : i # j => s[i] # s[j]
        /\ \A i, j \in 1..Cardinality(S) : i < j => s[i].timestamp >= s[j].timestamp}

\* LIMIT n: a negative n is no limit in SQLite.
Limit(s, n) == IF n < 0 THEN s ELSE SubSeq(s, 1, Min(n, Len(s)))

\* Database.getMessages({limit, from_me}): the possible row lists.
\* (m.* joined with the chat's name; the other filters are not used by the
\* suggestion path.)
GetMessages(table, limit, from_me) ==
    LET S == {m \in table : /\ m.chat_jid \in Chats
                            /\ (from_me.t # "undefined" =>
                                  m.is_from_me = (IF Truthy(from_me) THEN 1 ELSE 0))}
    IN {Limit([i \in 1..Len(s) |->
                 [id |-> s[i].id, chat_jid |-> s[i].chat_jid, timestamp |-> s[i].timestamp,
                  is_from_me |-> s[i].is_from_me, chat_name |-> ChatName(s[i].chat_jid)]],
              limit) : s \in OrderedByTimestampDesc(S)}

\* The rows ingestion may add to the table.  The second conversation holds
\* one message, whose id also occurs in the first: rows are identified by
\* (id, chat_jid).
MessageIds == {"m1", "m2", "m3", "m4"}
Timestamps == {1, 2, 3}
IngestibleRows ==
    {r \in [id : MessageIds, chat_jid : Chats, timestamp : Timestamps, is_from_me : {0}] :
        r.chat_jid = "chatB" => r.id = "m1"}
\* Most rows the table holds in the model.
MaxMessages == 4
\* Largest contextSize a caller passes in the model.
MaxContextSize == 1
\* contextSize = 5, the default of the parameter
DefaultContextSize == 5

\* Variant of GetConversationContext that leaves out results.reverse().
GetConversationContextNotReversed(table, messageId, chatJid, contextSize) ==
    LET target == {m \in table : m.id = messageId /\ m.chat_jid = chatJid}
    IN IF target = {} THEN {<<>>}
       ELSE LET ts == (CHOOSE m \in target : TRUE).timestamp
                S == {m \in table : m.chat_jid = chatJid /\ m.timestamp <= ts}
            IN {Limit(s, contextSize * 2 + 1) : s \in OrderedByTimestampDesc(S)}

\* Database.getConversationContext(messageId, chatJid, contextSize): the
\* lists the query may deliver, reversed.  The scalar subquery is NULL when
\* no row has the id in the chat, and `timestamp <= NULL` selects no row.
GetConversationContext(table, messageId, chatJid, contextSize) ==
    LET target == {m \in table : m.id = messageId /\ m.chat_jid = chatJid}
    IN IF target = {} THEN {<<>>}
       ELSE LET ts == (CHOOSE m \in target : TRUE).timestamp
                S == {m \in table : m.chat_jid = chatJid /\ m.timestamp <= ts}
            IN {Reverse(Limit(s, contextSize * 2 + 1)) : s \in OrderedByTimestampDesc(S)}

(***************************************************************************)
(* WhatsAppService.getSimilarConversations: grouping of the fetched rows   *)
(***************************************************************************)
\* The conversationMap after the for loop, as the list of its values in
\* insertion order.
RECURSIVE GroupByChat(_)
GroupByChat(rows) ==
    IF rows = <<>> THEN <<>>
    ELSE LET before == GroupByChat(SubSeq(rows, 1, Len(rows) - 1))
             message == rows[Len(rows)]
         IN IF \E g \in 1..Len(before) : before[g].chat_jid = message.chat_jid
            THEN [g \in 1..Len(before) |->
                    IF before[g].chat_jid = message.chat_jid
                    THEN [before[g] EXCEPT !.messages = Append(@, message)]
                    ELSE before[g]]
            ELSE Append(before, [chat_jid |-> message.chat_jid,
                                 chat_name |-> message.chat_name,
                                 messages |-> <<message>>])

\* Variant of SimilarConversations that returns every group.
SimilarConversationsAll(rows, limit) == GroupByChat(rows)

\* Array.from(conversationMap.values()).slice(0, limit)
SimilarConversations(rows, limit) ==
    LET groups == GroupByChat(rows)
    IN SubSeq(groups, 1, Min(limit, Len(groups)))

(***************************************************************************)
(* State                                                                   *)
(***************************************************************************)
VARIABLES
    chromaClient,         \* SimilarityService.chromaClient: "undefined" or "client"
    similarityThreshold,  \* SimilarityService.similarityThreshold
    collection,           \* SimilarityService.collection: Undefined or the handle
    chromaHasCollection,  \* the collection exists in the ChromaDB store
    messages,             \* rows of the SQLite table `messages`
    pc,                   \* where the call in flight is suspended
    call,                 \* the call in flight: its kind and arguments
    embedding,            \* getSuggestions/findSimilar: what generateEmbedding gave
    opts,                 \* the options object findSimilar was called with
    query,                \* the arguments of the collection.query the call sent
    results,              \* what collection.query resolved to
    ret,                  \* what the service's method returned or threw
    rows,                 \* what database.getMessages resolved to or threw
    http,                 \* the response the controller sent
    embedCalls,           \* calls of the call in flight to generateEmbedding,
    indexCalls,           \*   to the ChromaDB client or collection,
    storeCalls,           \*   and to the message store
    db,                   \* Database.db: "null", or the handle "opening", "open", "failed"
    storeUp,              \* the SQLite file can be opened and answers statements
    processed_embeddings, \* SQLite table processed_embeddings: whether it exists, its message_ids
    conversation_embeddings, \* ids held by the ChromaDB collection conversation_embeddings
    tasks,                \* concurrent findSimilar/addMessage calls: where each is suspended
    clients,              \* server.js `clients`: clientId -> socket, NoSocket when absent
    sockets,              \* the server's WebSocket objects: readyState, clientId, frames sent
    broadcasts,           \* broadcastToAll calls made
    hook                  \* useWebSocket: its refs, its sockets and timers, React state

vars == <<chromaClient, similarityThreshold, collection, chromaHasCollection, messages,
          pc, call, embedding, opts, query, results, ret, rows, http,
          embedCalls, indexCalls, storeCalls, db, storeUp,
          processed_embeddings, conversation_embeddings, tasks,
          clients, sockets, broadcasts, hook>>

migrationVars == <<processed_embeddings, conversation_embeddings>>
\* state of the parts that have a specification of their own
registryVars == <<clients, sockets, broadcasts>>
sideVars == <<tasks, registryVars, hook>>
serviceVars == <<chromaClient, similarityThreshold, messages, storeUp, migrationVars,
                 sideVars>>
\* what the concurrent calls of the service leave alone
constructedVars == <<chromaClient, similarityThreshold, messages, storeUp, migrationVars,
                     hook>>
callVars == <<pc, call, embedding, opts, query, results, ret, rows, http,
              embedCalls, indexCalls, storeCalls>>
\* what the useWebSocket hook, running in the browser, leaves alone
backendVars == <<chromaClient, similarityThreshold, messages, storeUp, migrationVars,
                 tasks, registryVars, collection, chromaHasCollection, callVars, db>>

Handle == [t |-> "collection"]

\* processed_embeddings before its CREATE TABLE ran, and with rows
NoTable == [exists |-> FALSE, ids |-> {}]
Table(ids) == [exists |-> TRUE, ids |-> ids]

\* A slot for a concurrent call of the service, before the call is made.
MaxTasks == 2
TaskIds == 1..MaxTasks
NoTask == [pc |-> "idle", kind |-> "none", unset |-> FALSE, ret |-> Undefined]

\* Connections the WebSocket server accepts, and the values clientId takes:
\* `client_${Date.now()}_${random}` is not checked against the ids in use.
MaxClients == 2
MaxSent == 2
MaxBroadcasts == 1
Sockets == 1..MaxClients
ClientIds == 1..MaxClients
NoSocket == 0
Unconnected == [readyState |-> "NONE", clientId |-> 0, sent |-> 0, events |-> {}]

\* useWebSocket: WebSocket objects alive at a time and timers pending at a
\* time; null refs.
MaxWebSockets == 2
MaxTimers == 2
WebSockets == 1..MaxWebSockets
Timers == 1..MaxTimers
NullRef == 0
MAX_RECONNECT_ATTEMPTS == 5
NoError == "null"
ConnectionFailed == "WebSocket connection failed"
ConnectionLost == "Connection lost - please refresh the page"

\* The hook before its component is mounted.  `stopped` and `scheduled`
\* are history: whether the last of disconnect()/unmount and mount/visibility
\* reconnect was the former, and the timers scheduled since the last open.
HookInit ==
    [wsRef |-> NullRef, reconnectTimeoutRef |-> NullRef, reconnectAttempts |-> 0,
     isManualDisconnectRef |-> FALSE, wsConnected |-> FALSE, error |-> NoError,
     mounted |-> FALSE, visible |-> TRUE,
     readyState |-> [s \in WebSockets |-> "NONE"], timers |-> {},
     stopped |-> FALSE, scheduled |-> 0]

SideInit ==
    /\ tasks = [t \in TaskIds |-> NoTask]
    /\ hook = HookInit
    /\ clients = [id \in ClientIds |-> NoSocket]
    /\ sockets = [s \in Sockets |-> Unconnected]
    /\ broadcasts = 0

NoCall == [kind |-> "none"]
NoOptions == [nResults |-> Undefined, whereClause |-> Undefined,
              includeDistances |-> Undefined, threshold |-> Undefined]

\* Options objects the model passes to the service's methods.
ServiceOptions ==
    [nResults : {Undefined, Num(1)},
     whereClause : {Undefined, CustomerFilter},
     includeDistances : {Undefined, Bool(FALSE)},
     threshold : {Undefined, Num(90)}]

\* Request bodies and query parameters the model sends to the controller.
MessageValues ==
    {Undefined, Str(<<>>), Str(<<" ">>), Str(<<" ", " ">>),
     Str(<<"a">>), Str(<<" ", "a">>), Num(5)}
QueryValues == {Undefined, Str(<<" ">>), Str(<<"a">>)}
LimitValues == {Undefined, Str(<<"1">>)}
ThresholdValues == {Undefined, Str(<<"0", ".", "9">>)}

\* How the embedding child process ends: exit code 0 with a JSON array on
\* stdout, exit code 0 with output JSON.parse rejects, or another exit code.
EmbeddingOutcomes == {"ok", "bad_json", "exit_nonzero"}

ServiceKinds == {"findSimilar", "findSimilarBusinessResponses"}

(***************************************************************************)
(* SimilarityService.findSimilar: the destructured options                 *)
(***************************************************************************)
NResultsOf(o) == IF o.nResults.t = "undefined" THEN Num(DefaultMaxResults) ELSE o.nResults
WhereOf(o) == IF o.whereClause.t = "undefined" THEN NoFilter ELSE o.whereClause
IncludeDistancesOf(o) ==
    IF o.includeDistances.t = "undefined" THEN TRUE ELSE Truthy(o.includeDistances)

\* The threshold formatSimilarityResults compares with: this.similarityThreshold.
\* findSimilar does not read options.threshold.
UsedThreshold(o, configured) == configured

\* collection.query({queryEmbeddings, nResults, where: whereClause, include})
QueryOf(o) == [t |-> "query", nResults |-> NResultsOf(o), where |-> WhereOf(o)]

\* Variant of BusinessOptions that spreads the options last:
\* { whereClause, ...options }
BusinessOptionsCallerLast(o) ==
    IF o.whereClause.t = "undefined" THEN [o EXCEPT !.whereClause = BusinessFilter] ELSE o

\* findSimilarBusinessResponses: { ...options, whereClause }
BusinessOptions(o) == [o EXCEPT !.whereClause = BusinessFilter]

(***************************************************************************)
(* Steps.  A step computes the new values of the call's variables as a     *)
(* record, which Apply assigns.                                            *)
(***************************************************************************)
Here == [pc |-> pc, embedding |-> embedding, query |-> query, results |-> results,
         ret |-> ret, rows |-> rows, http |-> http, embed |-> 0, index |-> 0, store |-> 0,
         db |-> db]

Apply(n) ==
    /\ pc' = n.pc
    /\ embedding' = n.embedding
    /\ rows' = n.rows
    /\ query' = n.query
    /\ results' = n.results
    /\ ret' = n.ret
    /\ http' = n.http
    /\ embedCalls' = embedCalls + n.embed
    /\ indexCalls' = indexCalls + n.index
    /\ storeCalls' = storeCalls + n.store
    /\ db' = n.db

ErrorResponse(status, code) == [t |-> "response", status |-> status, code |-> code]

\* Variant of Fail in which getSuggestions answers an error with an empty
\* success response.
FailAsEmptySuccess(kind, e, n) ==
    CASE kind = "getSuggestions" ->
           [n EXCEPT !.pc = "done",
                     !.http = [t |-> "response", status |-> 200, suggestions |-> <<>>,
                               similar_conversations |-> <<>>, similarity_count |-> 0]]
      [] kind = "findSimilarHttp" ->
           [n EXCEPT !.pc = "done", !.http = ErrorResponse(500, "SIMILARITY_ERROR")]
      [] OTHER -> [n EXCEPT !.pc = "done", !.ret = Throw(e)]

\* An exception (or rejected promise) reaching the caller of kind `kind`:
\* a direct caller of the service sees it thrown, the controller's catch
\* block answers 500.
Fail(kind, e, n) ==
    CASE kind = "getSuggestions" ->
           [n EXCEPT !.pc = "done", !.http = ErrorResponse(500, "SUGGESTION_ERROR")]
      [] kind = "findSimilarHttp" ->
           [n EXCEPT !.pc = "done", !.http = ErrorResponse(500, "SIMILARITY_ERROR")]
      [] OTHER -> [n EXCEPT !.pc = "done", !.ret = Throw(e)]

\* Where a call of kind `kind` waits for the rows of its statement.
StatementPc(kind) ==
    CASE kind = "getSuggestions" -> "getMessages"
      [] kind = "getConversationContext" -> "contextQuery"
      [] kind \in {"query", "run"} -> "statement"
      [] OTHER -> "conversationsQuery"

\* Database.query up to its first suspension: with no handle it calls
\* connect(), which assigns this.db at once and opens it later; with a
\* handle, whatever became of it, the statement goes to this.db.all.
SendStatement(kind, n) ==
    IF db = "null"
    THEN [n EXCEPT !.pc = "connect", !.db = "opening", !.store = @ + 1]
    ELSE [n EXCEPT !.pc = StatementPc(kind), !.store = @ + 1]

\* collection.query is sent.
SendQuery(o, n) == [n EXCEPT !.pc = "query", !.query = QueryOf(o), !.index = @ + 1]

\* findSimilar up to its first suspension: with the handle set the query is
\* sent; otherwise initializeCollection calls chromaClient.getCollection,
\* which is a TypeError when the service was constructed without a client
\* (the catch block's createCollection then throws the same TypeError).
BeginFindSimilar(kind, o, n) ==
    IF Truthy(collection) THEN SendQuery(o, n)
    ELSE IF chromaClient = "undefined" THEN Fail(kind, "TypeError", n)
    ELSE [n EXCEPT !.pc = "getCollection", !.index = @ + 1]

DocumentsOf(list) == [i \in 1..Len(list) |-> list[i].document]

\* findSimilar returned r (Ok or Throw) to its caller of kind `kind`.
ServiceReturn(kind, r, n) ==
    IF r.t = "throw" THEN Fail(kind, r.error, n)
    ELSE CASE kind = "getSuggestions" ->
                \* getSimilarConversations calls database.getMessages
                SendStatement(kind, [n EXCEPT !.ret = r])
           [] kind = "findSimilarHttp" ->
                [n EXCEPT !.pc = "done", !.ret = r,
                          !.http = [t |-> "response", status |-> 200, results |-> r.v,
                                    total_results |-> Len(r.v)]]
           [] OTHER -> [n EXCEPT !.pc = "done", !.ret = r]

(***************************************************************************)
(* Actions                                                                 *)
(***************************************************************************)
Init ==
    /\ chromaClient \in {"undefined", "client"}
    /\ similarityThreshold \in ConfiguredThresholds
    /\ collection = Undefined
    /\ chromaHasCollection \in BOOLEAN
    /\ messages = FixtureMessages
    /\ pc = "idle"
    /\ call = NoCall
    /\ opts = NoOptions
    /\ query = Undefined
    /\ results = Undefined
    /\ ret = Undefined
    /\ rows = Undefined
    /\ embedding = Undefined
    /\ http = Undefined
    /\ embedCalls = 0
    /\ indexCalls = 0
    /\ storeCalls = 0
    /\ db = "null"
    /\ storeUp = TRUE
    /\ processed_embeddings = NoTable
    /\ conversation_embeddings = {}
    /\ SideInit

\* similarityService.findSimilar(queryEmbedding, o), called directly
CallFindSimilar(o) ==
    /\ pc = "idle"
    /\ call' = [kind |-> "findSimilar", options |-> o]
    /\ opts' = o
    /\ Apply(BeginFindSimilar("findSimilar", o, Here))
    /\ UNCHANGED <<serviceVars, collection, chromaHasCollection>>

\* similarityService.findSimilarBusinessResponses(queryEmbedding, o)
CallFindSimilarBusinessResponses(o) ==
    /\ pc = "idle"
    /\ call' = [kind |-> "findSimilarBusinessResponses", options |-> o]
    /\ opts' = BusinessOptions(o)
    /\ Apply(BeginFindSimilar("findSimilarBusinessResponses", BusinessOptions(o), Here))
    /\ UNCHANGED <<serviceVars, collection, chromaHasCollection>>

\* Variant of ValidateAndEmbed that tests `!text` only, without trimming.
ValidateAndEmbedNoTrim(kind, text, missingCode) ==
    IF ~Truthy(text) THEN
        [Here EXCEPT !.pc = "done", !.http = ErrorResponse(400, missingCode)]
    ELSE IF text.t # "string" THEN
        Fail(kind, "TypeError", Here)
    ELSE
        [Here EXCEPT !.pc = "embedding", !.embed = @ + 1]

\* The validation of the controller's handlers, and the call of
\* generateEmbedding that follows it.
ValidateAndEmbed(kind, text, missingCode) ==
    IF ~Truthy(text) THEN
        [Here EXCEPT !.pc = "done", !.http = ErrorResponse(400, missingCode)]
    ELSE IF text.t # "string" THEN
        Fail(kind, "TypeError", Here)                \* text.trim is not a function
    ELSE IF ~Truthy(Str(Trim(text.v))) THEN
        [Here EXCEPT !.pc = "done", !.http = ErrorResponse(400, missingCode)]
    ELSE
        [Here EXCEPT !.pc = "embedding", !.embed = @ + 1]

\* POST /api/messages/suggestions with body { message }
HttpGetSuggestions(message) ==
    /\ pc = "idle"
    /\ call' = [kind |-> "getSuggestions", message |-> message]
    /\ Apply(ValidateAndEmbed("getSuggestions", message, "MISSING_MESSAGE"))
    /\ UNCHANGED <<serviceVars, collection, chromaHasCollection, opts>>

\* GET /api/messages/similar?query=..&limit=..&threshold=..
HttpFindSimilar(q, limit, threshold) ==
    /\ pc = "idle"
    /\ call' = [kind |-> "findSimilarHttp", query |-> q, limit |-> limit,
                threshold |-> threshold]
    /\ Apply(ValidateAndEmbed("findSimilarHttp", q, "MISSING_QUERY"))
    /\ UNCHANGED <<serviceVars, collection, chromaHasCollection, opts>>

\* The options the controller's handler passes to the service.
ControllerOptions(c) ==
    IF c.kind = "getSuggestions"
    THEN BusinessOptions([NoOptions EXCEPT !.nResults = Num(3)])
    ELSE [NoOptions EXCEPT
            !.nResults = ParseInt(IF c.limit.t = "undefined" THEN Num(5) ELSE c.limit),
            !.threshold = IF Truthy(c.threshold) THEN ParseFloat(c.threshold)
                          ELSE Undefined]

\* The embedding child process closes.
EmbeddingClose(outcome) ==
    /\ pc = "embedding"
    /\ IF outcome = "ok"
       THEN /\ opts' = ControllerOptions(call)
            /\ Apply(BeginFindSimilar(call.kind, ControllerOptions(call),
                                      [Here EXCEPT !.embedding = Ok("vector")]))
       ELSE /\ opts' = opts
            /\ Apply(Fail(call.kind, outcome,
                          [Here EXCEPT !.embedding = Throw(outcome)]))
    /\ UNCHANGED <<serviceVars, collection, chromaHasCollection, call>>

\* chromaClient.getCollection resolves: the collection exists.
GetCollectionResolve ==
    /\ pc = "getCollection"
    /\ chromaHasCollection
    /\ collection' = Handle
    /\ Apply(SendQuery(opts, Here))
    /\ UNCHANGED <<serviceVars, chromaHasCollection, call, opts>>

\* chromaClient.getCollection rejects (no such collection, or the store
\* cannot be reached): the catch block calls createCollection.
GetCollectionReject ==
    /\ pc = "getCollection"
    /\ Apply([Here EXCEPT !.pc = "createCollection", !.index = @ + 1])
    /\ UNCHANGED <<serviceVars, collection, chromaHasCollection, call, opts>>

\* chromaClient.createCollection resolves: the collection is created.
CreateCollectionResolve ==
    /\ pc = "createCollection"
    /\ ~chromaHasCollection
    /\ chromaHasCollection' = TRUE
    /\ collection' = Handle
    /\ Apply(SendQuery(opts, Here))
    /\ UNCHANGED <<serviceVars, call, opts>>

\* chromaClient.createCollection rejects (the collection exists, or the
\* store cannot be reached): initializeCollection throws.
CreateCollectionReject ==
    /\ pc = "createCollection"
    /\ Apply(Fail(call.kind, "IndexUnavailable", Here))
    /\ UNCHANGED <<serviceVars, collection, chromaHasCollection, call, opts>>

\* collection.query resolves to r; findSimilar formats it and returns.
QueryResolveTo(r) ==
    /\ Apply(ServiceReturn(call.kind,
                           FormatSimilarityResults(r, IncludeDistancesOf(opts),
                               UsedThreshold(opts, similarityThreshold)),
                           [Here EXCEPT !.results = r]))
    /\ UNCHANGED <<serviceVars, collection, chromaHasCollection, call, opts>>

QueryResolve ==
    /\ pc = "query"
    /\ \E r \in QueryResponses(query.where, query.nResults.v) : QueryResolveTo(r)

\* collection.query rejects.
QueryReject ==
    /\ pc = "query"
    /\ Apply(Fail(call.kind, "IndexUnavailable", Here))
    /\ UNCHANGED <<serviceVars, collection, chromaHasCollection, call, opts>>

\* database.getMessages({limit: 30, from_me: false}) resolves to rows;
\* getSimilarConversations groups them and getSuggestions answers.
GetMessagesResolveTo(fetched) ==
    /\ Apply([Here EXCEPT
                !.pc = "done",
                !.rows = Ok(fetched),
                !.http = [t |-> "response", status |-> 200,
                          suggestions |-> DocumentsOf(ret.v),
                          similar_conversations |-> SimilarConversations(fetched, 3),
                          similarity_count |-> Len(ret.v)]])
    /\ UNCHANGED <<serviceVars, collection, chromaHasCollection, call, opts>>

GetMessagesResolve ==
    /\ pc = "getMessages" /\ db = "open" /\ storeUp
    /\ \E fetched \in GetMessages(messages, 30, Bool(FALSE)) : GetMessagesResolveTo(fetched)

\* database.getMessages rejects: getSimilarConversations rethrows.
GetMessagesReject ==
    /\ pc = "getMessages" /\ (db = "failed" \/ ~storeUp)
    /\ Apply(Fail(call.kind, "Failed to get similar conversations",
                  [Here EXCEPT !.rows = Throw("Database query failed")]))
    /\ UNCHANGED <<serviceVars, collection, chromaHasCollection, call, opts>>

\* The error a failed statement or connection brings to the caller of the
\* store: getSuggestions gets it through getSimilarConversations, which
\* rethrows; the methods called directly throw.
StoreFailure(kind, e, n) ==
    IF kind = "getSuggestions"
    THEN Fail(kind, "Failed to get similar conversations", [n EXCEPT !.rows = Throw(e)])
    ELSE IF kind = "getSimilarConversations"
    THEN [n EXCEPT !.pc = "done", !.rows = Throw(e),
                   !.ret = Throw("Failed to get similar conversations")]
    ELSE [n EXCEPT !.pc = "done", !.ret = Throw(e)]

\* Database.connect: sqlite3 opened the file; query goes on to this.db.all.
ConnectResolve ==
    /\ pc = "connect" /\ storeUp
    /\ Apply(IF call.kind = "connect"
             THEN [Here EXCEPT !.pc = "done", !.db = "open", !.ret = Ok(Undefined)]
             ELSE [Here EXCEPT !.pc = StatementPc(call.kind), !.db = "open"])
    /\ UNCHANGED <<serviceVars, collection, chromaHasCollection, call, opts>>

\* Database.connect: sqlite3 could not open the file; the promise rejects
\* and this.db keeps the handle that did not open.
ConnectReject ==
    /\ pc = "connect" /\ ~storeUp
    /\ Apply(StoreFailure(call.kind, "Failed to connect to database",
                          [Here EXCEPT !.db = "failed"]))
    /\ UNCHANGED <<serviceVars, collection, chromaHasCollection, call, opts>>

\* The SQLite file becomes unavailable (removed, locked, unreadable) ...
StoreFails ==
    /\ storeUp
    /\ storeUp' = FALSE
    /\ UNCHANGED <<chromaClient, similarityThreshold, messages, collection,
                   chromaHasCollection, callVars, db, migrationVars, sideVars>>

\* ... and available again.
StoreRecovers ==
    /\ ~storeUp
    /\ storeUp' = TRUE
    /\ UNCHANGED <<chromaClient, similarityThreshold, messages, collection,
                   chromaHasCollection, callVars, db, migrationVars, sideVars>>

\* The call is over; the next one may start.
Return ==
    /\ pc = "done"
    /\ pc' = "idle"
    /\ call' = NoCall
    /\ opts' = NoOptions
    /\ query' = Undefined
    /\ results' = Undefined
    /\ ret' = Undefined
    /\ rows' = Undefined
    /\ embedding' = Undefined
    /\ http' = Undefined
    /\ embedCalls' = 0
    /\ indexCalls' = 0
    /\ storeCalls' = 0
    /\ UNCHANGED <<serviceVars, collection, chromaHasCollection, db>>

Next ==
    \/ \E o \in ServiceOptions : CallFindSimilar(o)
    \/ \E o \in ServiceOptions : CallFindSimilarBusinessResponses(o)
    \/ \E m \in MessageValues : HttpGetSuggestions(m)
    \/ \E q \in QueryValues, l \in LimitValues, th \in ThresholdValues :
          HttpFindSimilar(q, l, th)
    \/ \E outcome \in EmbeddingOutcomes : EmbeddingClose(outcome)
    \/ GetCollectionResolve
    \/ GetCollectionReject
    \/ CreateCollectionResolve
    \/ CreateCollectionReject
    \/ QueryResolve
    \/ QueryReject
    \/ GetMessagesResolve
    \/ GetMessagesReject
    \/ ConnectResolve
    \/ ConnectReject
    \/ StoreFails
    \/ StoreRecovers
    \/ Return

Spec == Init /\ [][Next]_vars

\* The same program with the progress its environment owes it: a response
\* is sent once computed, ChromaDB answers getCollection and createCollection
\* and SQLite answers connect and statements.  Nothing makes the embedding
\* child process exit or collection.query return.
SpecTimeout ==
    /\ Init /\ [][Next]_vars
    /\ WF_vars(Return)
    /\ WF_vars(GetCollectionResolve \/ GetCollectionReject)
    /\ WF_vars(CreateCollectionResolve \/ CreateCollectionReject)
    /\ WF_vars(ConnectResolve \/ ConnectReject)
    /\ WF_vars(GetMessagesResolve \/ GetMessagesReject)

(***************************************************************************)
(* SimilarityService.calculateCosineSimilarity                             *)
(***************************************************************************)
\* Longest vector the model passes.
MaxVectorLen == 3
Components == {0, 1, 2}
Vectors == UNION {[1..n -> Components] : n \in 0..MaxVectorLen}

\* The sum of v[i] * w[i] over the first n indexes, as the for loop adds it.
RECURSIVE SumOfProducts(_, _, _)
SumOfProducts(v, w, n) ==
    IF n = 0 THEN 0 ELSE SumOfProducts(v, w, n - 1) + v[n] * w[n]

\* The quotient dotProduct / (sqrt(a) * sqrt(b)), kept exact: a and b are
\* the sums of squares.
Quotient(dotProduct, a, b) ==
    [t |-> "number", dotProduct |-> dotProduct, squaredMagnitudeA |-> a,
     squaredMagnitudeB |-> b]

\* Variant of calculateCosineSimilarity without the length test: the loop
\* runs over vectorA and reads missing components of vectorB as undefined.
CalculateCosineSimilarityUnchecked(vectorA, vectorB) ==
    IF Len(vectorA) > Len(vectorB) THEN Ok(NaN)
    ELSE LET n == Len(vectorA)
             magnitudeA == SumOfProducts(vectorA, vectorA, n)
             magnitudeB == SumOfProducts(vectorB, vectorB, n)
         IN IF magnitudeA = 0 \/ magnitudeB = 0 THEN Ok(Num(0))
            ELSE Ok(Quotient(SumOfProducts(vectorA, vectorB, n), magnitudeA, magnitudeB))

\* calculateCosineSimilarity(vectorA, vectorB): what it returns or throws.
CalculateCosineSimilarity(vectorA, vectorB) ==
    IF Len(vectorA) # Len(vectorB) THEN Throw("Vectors must have the same length")
    ELSE LET n == Len(vectorA)
             magnitudeA == SumOfProducts(vectorA, vectorA, n)
             magnitudeB == SumOfProducts(vectorB, vectorB, n)
         IN IF magnitudeA = 0 \/ magnitudeB = 0 THEN Ok(Num(0))
            ELSE Ok(Quotient(SumOfProducts(vectorA, vectorB, n), magnitudeA, magnitudeB))

\* similarityService.calculateCosineSimilarity(vectorA, vectorB) is called;
\* the method is synchronous.
CallCalculateCosineSimilarity(vectorA, vectorB) ==
    /\ pc = "idle"
    /\ call' = [kind |-> "calculateCosineSimilarity", vectorA |-> vectorA,
                vectorB |-> vectorB]
    /\ Apply([Here EXCEPT !.pc = "done",
                          !.ret = CalculateCosineSimilarity(vectorA, vectorB)])
    /\ UNCHANGED <<serviceVars, collection, chromaHasCollection, opts>>

NextCosine ==
    \/ \E vectorA, vectorB \in Vectors : CallCalculateCosineSimilarity(vectorA, vectorB)
    \/ Return

(***************************************************************************)
(* The conversation-context query on a table that ingestion fills.         *)
(***************************************************************************)
InitContext ==
    /\ chromaClient = "client"
    /\ similarityThreshold = DefaultSimilarityThreshold
    /\ collection = Undefined
    /\ chromaHasCollection = FALSE
    /\ messages = {}
    /\ pc = "idle"
    /\ call = NoCall
    /\ opts = NoOptions
    /\ query = Undefined
    /\ results = Undefined
    /\ ret = Undefined
    /\ rows = Undefined
    /\ embedding = Undefined
    /\ http = Undefined
    /\ embedCalls = 0
    /\ indexCalls = 0
    /\ storeCalls = 0
    /\ db = "null"
    /\ storeUp = TRUE
    /\ processed_embeddings = NoTable
    /\ conversation_embeddings = {}
    /\ SideInit

\* The ingestion process (outside this repository) inserts a message.
Ingest(m) ==
    /\ Cardinality(messages) < MaxMessages
    /\ \A r \in messages : ~(r.id = m.id /\ r.chat_jid = m.chat_jid)
    /\ messages' = messages \cup {m}
    /\ UNCHANGED <<chromaClient, similarityThreshold, collection, chromaHasCollection,
                   callVars, db, storeUp, migrationVars, sideVars>>

ContextSizes == {Undefined} \cup {Num(k) : k \in 0..MaxContextSize}

\* database.getConversationContext(messageId, chatJid, contextSize): the
\* query is handed to SQLite.
CallGetConversationContext(messageId, chatJid, contextSize) ==
    /\ pc = "idle"
    /\ call' = [kind |-> "getConversationContext", messageId |-> messageId,
                chatJid |-> chatJid,
                contextSize |-> IF contextSize.t = "undefined"
                                THEN DefaultContextSize ELSE contextSize.v]
    /\ Apply(SendStatement("getConversationContext", Here))
    /\ UNCHANGED <<serviceVars, collection, chromaHasCollection, opts>>

\* The query resolves to its rows; the method returns them reversed.
ContextQueryResolve ==
    /\ pc = "contextQuery" /\ db = "open" /\ storeUp
    /\ \E list \in GetConversationContext(messages, call.messageId, call.chatJid,
                                           call.contextSize) :
          Apply([Here EXCEPT !.pc = "done", !.ret = Ok(list)])
    /\ UNCHANGED <<serviceVars, collection, chromaHasCollection, call, opts>>

\* The query rejects (Database.query: 'Database query failed: ...').
ContextQueryReject ==
    /\ pc = "contextQuery" /\ (db = "failed" \/ ~storeUp)
    /\ Apply([Here EXCEPT !.pc = "done", !.ret = Throw("Database query failed")])
    /\ UNCHANGED <<serviceVars, collection, chromaHasCollection, call, opts>>

\* const { limit = 3 } = options
DefaultConversationLimit == 3
\* Largest limit a caller of getSimilarConversations passes in the model.
MaxLimit == 2
ConversationLimits == {Undefined} \cup {Num(k) : k \in 0..MaxLimit}

\* whatsappService.getSimilarConversations(queryEmbedding, {limit}) called
\* directly: database.getMessages({limit: limit * 10, from_me: false}) is
\* sent.
CallGetSimilarConversations(limit) ==
    /\ pc = "idle"
    /\ call' = [kind |-> "getSimilarConversations",
                limit |-> IF limit.t = "undefined"
                          THEN DefaultConversationLimit ELSE limit.v]
    /\ Apply(SendStatement("getSimilarConversations", Here))
    /\ UNCHANGED <<serviceVars, collection, chromaHasCollection, opts>>

\* The rows arrive; they are grouped and the first `limit` groups returned.
SimilarConversationsResolve ==
    /\ pc = "conversationsQuery" /\ db = "open" /\ storeUp
    /\ \E fetched \in GetMessages(messages, call.limit * 10, Bool(FALSE)) :
          Apply([Here EXCEPT !.pc = "done", !.rows = Ok(fetched),
                             !.ret = Ok(SimilarConversations(fetched, call.limit))])
    /\ UNCHANGED <<serviceVars, collection, chromaHasCollection, call, opts>>

\* database.getMessages rejects; the catch block rethrows.
SimilarConversationsReject ==
    /\ pc = "conversationsQuery" /\ (db = "failed" \/ ~storeUp)
    /\ Apply([Here EXCEPT !.pc = "done", !.rows = Throw("Database query failed"),
                          !.ret = Throw("Failed to get similar conversations")])
    /\ UNCHANGED <<serviceVars, collection, chromaHasCollection, call, opts>>

NextContext ==
    \/ \E limit \in ConversationLimits : CallGetSimilarConversations(limit)
    \/ SimilarConversationsResolve
    \/ SimilarConversationsReject
    \/ \E m \in IngestibleRows : Ingest(m)
    \/ \E id \in MessageIds \cup {"m9"}, jid \in Chats, size \in ContextSizes :
          CallGetConversationContext(id, jid, size)
    \/ ContextQueryResolve
    \/ ContextQueryReject
    \/ ConnectResolve
    \/ ConnectReject
    \/ StoreFails
    \/ StoreRecovers
    \/ Return

SpecContext == InitContext /\ [][NextContext]_vars

\* The cosine utility on a service constructed as above.
SpecCosine == InitContext /\ [][NextCosine]_vars

(***************************************************************************)
(* The Database class called directly: connect, close, query and run.      *)
(***************************************************************************)
Statements ==
    {"SELECT * FROM messages", "SELECT * FROM chats",
     "SELECT COUNT(*) as total_messages FROM messages"}
Operations == {"INSERT INTO test VALUES (1)", "DELETE FROM test"}

\* database.connect(): this.db is assigned the new handle at once.
CallConnect ==
    /\ pc = "idle"
    /\ call' = [kind |-> "connect"]
    /\ Apply([Here EXCEPT !.pc = "connect", !.db = "opening", !.store = @ + 1])
    /\ UNCHANGED <<serviceVars, collection, chromaHasCollection, opts>>

\* database.close(): nothing to do without a handle; otherwise the handle's
\* close is called.  this.db is not reset.
CallClose ==
    /\ pc = "idle"
    /\ call' = [kind |-> "close"]
    /\ Apply(IF db = "null" THEN [Here EXCEPT !.pc = "done", !.ret = Ok(Undefined)]
             ELSE [Here EXCEPT !.pc = "closing", !.store = @ + 1])
    /\ UNCHANGED <<serviceVars, collection, chromaHasCollection, opts>>

\* The close callback: an error is logged, the promise resolves either way.
CloseCallback ==
    /\ pc = "closing"
    /\ Apply([Here EXCEPT !.pc = "done", !.ret = Ok(Undefined),
                          !.db = IF db = "open" THEN "closed" ELSE db])
    /\ UNCHANGED <<serviceVars, collection, chromaHasCollection, call, opts>>

\* database.query(sql)
CallQuery(sql) ==
    /\ pc = "idle"
    /\ call' = [kind |-> "query", sql |-> sql]
    /\ Apply(SendStatement("query", Here))
    /\ UNCHANGED <<serviceVars, collection, chromaHasCollection, opts>>

\* database.run(sql)
CallRun(sql) ==
    /\ pc = "idle"
    /\ call' = [kind |-> "run", sql |-> sql]
    /\ Apply(SendStatement("run", Here))
    /\ UNCHANGED <<serviceVars, collection, chromaHasCollection, opts>>

\* this.db.all / this.db.run calls back without an error.
StatementResolve ==
    /\ pc = "statement" /\ db = "open" /\ storeUp
    /\ Apply([Here EXCEPT !.pc = "done", !.ret = Ok(call.sql)])
    /\ UNCHANGED <<serviceVars, collection, chromaHasCollection, call, opts>>

\* this.db.all / this.db.run calls back with an error: the store does not
\* answer, or the handle never opened or was closed.
StatementReject ==
    /\ pc = "statement" /\ (db # "open" \/ ~storeUp)
    /\ Apply([Here EXCEPT !.pc = "done",
                          !.ret = Throw(IF call.kind = "query"
                                        THEN "Database query failed"
                                        ELSE "Database operation failed")])
    /\ UNCHANGED <<serviceVars, collection, chromaHasCollection, call, opts>>

NextDatabase ==
    \/ CallConnect
    \/ CallClose
    \/ CloseCallback
    \/ \E sql \in Statements : CallQuery(sql)
    \/ \E sql \in Operations : CallRun(sql)
    \/ ConnectResolve
    \/ ConnectReject
    \/ StatementResolve
    \/ StatementReject
    \/ StoreFails
    \/ StoreRecovers
    \/ Return

SpecDatabase == InitContext /\ [][NextDatabase]_vars

(***************************************************************************)
(* SimilarityService.initializeCollection under concurrent calls.  Each    *)
(* addMessage/findSimilar call is an async function: it runs up to its     *)
(* next await, and other calls run while it is suspended.  The index       *)
(* answers getCollection by whether the collection exists and refuses to   *)
(* create a collection whose name is taken (createCollection is not        *)
(* getOrCreateCollection).                                                 *)
(***************************************************************************)
TaskKinds == {"addMessage", "findSimilar"}

\* What the call awaits once it holds a collection.
TaskWork(kind) == IF kind = "addMessage" THEN "add" ELSE "query"

\* addMessage(...) / findSimilar(...): `if (!this.collection)
\* await this.initializeCollection()`, whose first await is getCollection.
TaskStart(t, kind) ==
    /\ tasks[t].pc = "idle"
    /\ tasks' = [tasks EXCEPT ![t] =
                   [pc |-> IF Truthy(collection) THEN TaskWork(kind) ELSE "getCollection",
                    kind |-> kind,
                    unset |-> ~Truthy(collection) /\ ~chromaHasCollection,
                    ret |-> Undefined]]
    /\ UNCHANGED <<constructedVars, registryVars, collection, chromaHasCollection, callVars, db>>

\* getCollection resolved: `this.collection = await ...getCollection(...)`.
TaskGetCollectionResolve(t) ==
    /\ tasks[t].pc = "getCollection"
    /\ chromaHasCollection
    /\ collection' = Handle
    /\ tasks' = [tasks EXCEPT ![t].pc = TaskWork(tasks[t].kind)]
    /\ UNCHANGED <<constructedVars, registryVars, chromaHasCollection, callVars, db>>

\* getCollection rejected (no such collection): the catch block calls
\* createCollection.
TaskGetCollectionReject(t) ==
    /\ tasks[t].pc = "getCollection"
    /\ ~chromaHasCollection
    /\ tasks' = [tasks EXCEPT ![t].pc = "createCollection"]
    /\ UNCHANGED <<constructedVars, registryVars, collection, chromaHasCollection, callVars, db>>

\* createCollection resolved: the collection exists from now on.
TaskCreateCollectionResolve(t) ==
    /\ tasks[t].pc = "createCollection"
    /\ ~chromaHasCollection
    /\ chromaHasCollection' = TRUE
    /\ collection' = Handle
    /\ tasks' = [tasks EXCEPT ![t].pc = TaskWork(tasks[t].kind)]
    /\ UNCHANGED <<constructedVars, registryVars, callVars, db>>

\* createCollection rejected, the name being taken: nothing catches it, so
\* initializeCollection and the call that awaited it reject.
TaskCreateCollectionReject(t) ==
    /\ tasks[t].pc = "createCollection"
    /\ chromaHasCollection
    /\ tasks' = [tasks EXCEPT ![t].pc = "done",
                              ![t].ret = Throw("CollectionExists")]
    /\ UNCHANGED <<constructedVars, registryVars, collection, chromaHasCollection, callVars, db>>

\* collection.add / collection.query resolved: the call returns.
TaskWorkResolve(t) ==
    /\ tasks[t].pc \in {"add", "query"}
    /\ tasks' = [tasks EXCEPT ![t].pc = "done", ![t].ret = Ok(Undefined)]
    /\ UNCHANGED <<constructedVars, registryVars, collection, chromaHasCollection, callVars, db>>

\* The caller has taken the outcome; the slot serves a later call.
TaskReturn(t) ==
    /\ tasks[t].pc = "done"
    /\ tasks' = [tasks EXCEPT ![t] = NoTask]
    /\ UNCHANGED <<constructedVars, registryVars, collection, chromaHasCollection, callVars, db>>

NextLazy ==
    \/ \E t \in TaskIds, kind \in TaskKinds : TaskStart(t, kind)
    \/ \E t \in TaskIds : TaskGetCollectionResolve(t)
    \/ \E t \in TaskIds : TaskGetCollectionReject(t)
    \/ \E t \in TaskIds : TaskCreateCollectionResolve(t)
    \/ \E t \in TaskIds : TaskCreateCollectionReject(t)
    \/ \E t \in TaskIds : TaskWorkResolve(t)
    \/ \E t \in TaskIds : TaskReturn(t)

SpecLazy == InitContext /\ [][NextLazy]_vars

(***************************************************************************)
(* The WebSocket server of server.js: the registry `clients` and           *)
(* broadcastToAll.  A socket of the ws library is OPEN when the server     *)
(* gets it, CLOSING once a closing handshake has started or an error has   *)
(* occurred, and CLOSED when its 'close' event is emitted.                 *)
(***************************************************************************)
\* ws.readyState === WebSocket.OPEN
ReadyToSendAnyState(readyState) == TRUE

ReadyToSend(readyState) == readyState = "OPEN"

\* clients.delete(clientId)
Delete(registry, id) == [registry EXCEPT ![id] = NoSocket]

\* wss.on('connection'): clients.set(clientId, ws), then the welcome frame.
Connection(s, id) ==
    /\ sockets[s].readyState = "NONE"
    /\ clients' = [clients EXCEPT ![id] = s]
    /\ sockets' = [sockets EXCEPT ![s] =
                     [readyState |-> "OPEN", clientId |-> id, sent |-> 1, events |-> {}]]
    /\ UNCHANGED <<constructedVars, tasks, broadcasts, collection, chromaHasCollection,
                   callVars, db>>

\* ws.on('message'): a frame that parses as JSON is echoed, another is logged.
Message(s, valid) ==
    /\ sockets[s].readyState = "OPEN"
    /\ sockets[s].sent < MaxSent
    /\ sockets' = [sockets EXCEPT ![s].sent = IF valid THEN @ + 1 ELSE @]
    /\ UNCHANGED <<constructedVars, tasks, clients, broadcasts, collection,
                   chromaHasCollection, callVars, db>>

\* The closing handshake starts (either side): readyState leaves OPEN before
\* any event reaches the handlers.
Closing(s) ==
    /\ sockets[s].readyState = "OPEN"
    /\ sockets' = [sockets EXCEPT ![s].readyState = "CLOSING"]
    /\ UNCHANGED <<constructedVars, tasks, clients, broadcasts, collection,
                   chromaHasCollection, callVars, db>>

\* ws.on('error'): clients.delete(clientId); the library closes the socket.
ErrorEvent(s) ==
    /\ sockets[s].readyState \in {"OPEN", "CLOSING"}
    /\ clients' = Delete(clients, sockets[s].clientId)
    /\ sockets' = [sockets EXCEPT ![s].readyState = "CLOSING",
                                  ![s].events = @ \cup {"error"}]
    /\ UNCHANGED <<constructedVars, tasks, broadcasts, collection, chromaHasCollection,
                   callVars, db>>

\* ws.on('close'): clients.delete(clientId).
CloseEvent(s) ==
    /\ sockets[s].readyState \in {"OPEN", "CLOSING"}
    /\ clients' = Delete(clients, sockets[s].clientId)
    /\ sockets' = [sockets EXCEPT ![s].readyState = "CLOSED",
                                  ![s].events = @ \cup {"close"}]
    /\ UNCHANGED <<constructedVars, tasks, broadcasts, collection, chromaHasCollection,
                   callVars, db>>

\* The entries of the registry under which forEach visits socket s and finds
\* it ready to send.
SendingEntries(s) ==
    {id \in ClientIds : clients[id] = s /\ ReadyToSend(sockets[s].readyState)}

\* broadcastToAll(message): clients.forEach sends to the OPEN sockets and
\* deletes the other entries (forEach visits every entry once, also when the
\* entry being visited is deleted).
BroadcastToAll ==
    /\ broadcasts < MaxBroadcasts
    /\ \A s \in Sockets : sockets[s].sent < MaxSent
    /\ broadcasts' = broadcasts + 1
    /\ sockets' = [s \in Sockets |->
                     [sockets[s] EXCEPT !.sent = @ + Cardinality(SendingEntries(s))]]
    /\ clients' = [id \in ClientIds |->
                     IF clients[id] # NoSocket
                        /\ ~ReadyToSend(sockets[clients[id]].readyState)
                     THEN NoSocket ELSE clients[id]]
    /\ UNCHANGED <<constructedVars, tasks, collection, chromaHasCollection, callVars, db>>

NextRegistry ==
    \/ \E s \in Sockets, id \in ClientIds : Connection(s, id)
    \/ \E s \in Sockets, valid \in BOOLEAN : Message(s, valid)
    \/ \E s \in Sockets : Closing(s)
    \/ \E s \in Sockets : ErrorEvent(s)
    \/ \E s \in Sockets : CloseEvent(s)
    \/ BroadcastToAll

SpecRegistry == InitContext /\ [][NextRegistry]_vars

(***************************************************************************)
(* The useWebSocket hook of the frontend (src/unnamed/part_004).  A        *)
(* WebSocket is CONNECTING when constructed, OPEN after its open event,    *)
(* CLOSING after close() or an error, and gone ("NONE") once its close     *)
(* event has been delivered.  WS_URL is a well-formed ws:// URL, so the    *)
(* constructor does not throw.  React state (wsConnected, error) is read   *)
(* as last set.                                                            *)
(***************************************************************************)
\* the next free slot
Least(S) == CHOOSE x \in S : \A y \in S : x <= y

FreeWebSockets(h) == {s \in WebSockets : h.readyState[s] = "NONE"}
FreeTimers(h) == Timers \ h.timers

\* wsRef.current?.readyState === WebSocket.OPEN
RefOpen(h) == h.wsRef # NullRef /\ h.readyState[h.wsRef] = "OPEN"

\* reconnectAttemptsRef.current >= MAX_RECONNECT_ATTEMPTS
LimitReachedLate(attempts) == attempts > MAX_RECONNECT_ATTEMPTS

LimitReached(attempts) == attempts >= MAX_RECONNECT_ATTEMPTS

\* connect()
Connect(h) ==
    IF RefOpen(h) THEN h
    ELSE LET ws == Least(FreeWebSockets(h))
         IN [h EXCEPT !.readyState[ws] = "CONNECTING", !.wsRef = ws]

\* connect() can be taken within the bound on WebSocket objects
CanConnect(h) == RefOpen(h) \/ FreeWebSockets(h) # {}

\* attemptReconnection()
AttemptReconnection(h) ==
    IF LimitReached(h.reconnectAttempts)
    THEN [h EXCEPT !.error = ConnectionLost]
    ELSE LET id == Least(FreeTimers(h))
         IN [h EXCEPT !.reconnectAttempts = @ + 1,
                      !.reconnectTimeoutRef = id,
                      !.timers = @ \cup {id},
                      !.scheduled = @ + 1]

CanAttemptReconnection(h) == LimitReached(h.reconnectAttempts) \/ FreeTimers(h) # {}

\* ws.close(...): a socket that is connecting or open starts closing
Close(h, ws) ==
    IF ws = NullRef THEN h
    ELSE [h EXCEPT !.readyState[ws] = "CLOSING"]

\* clearTimeout(reconnectTimeoutRef.current)
ClearReconnectTimeout(h) == [h EXCEPT !.timers = @ \ {h.reconnectTimeoutRef}]

\* The effect `isManualDisconnectRef.current = false; connect()` runs: on
\* mount, and again after its cleanup when its dependency changed.
MountEffect ==
    /\ ~hook.mounted
    /\ CanConnect(hook)
    /\ hook' = Connect([hook EXCEPT !.mounted = TRUE,
                                    !.isManualDisconnectRef = FALSE,
                                    !.stopped = FALSE])
    /\ UNCHANGED backendVars

\* The effect's cleanup (unmount): the refs keep their values.
Unmount ==
    /\ hook.mounted
    /\ hook' = Close(ClearReconnectTimeout(
                         [hook EXCEPT !.mounted = FALSE,
                                      !.isManualDisconnectRef = TRUE,
                                      !.stopped = TRUE]),
                     hook.wsRef)
    /\ UNCHANGED backendVars

\* disconnect()
Disconnect ==
    /\ hook.mounted
    /\ hook' = [Close(ClearReconnectTimeout(hook), hook.wsRef)
                  EXCEPT !.isManualDisconnectRef = TRUE,
                         !.reconnectTimeoutRef = NullRef,
                         !.wsRef = NullRef,
                         !.wsConnected = FALSE,
                         !.stopped = TRUE]
    /\ UNCHANGED backendVars

\* ws.onopen
OnOpen(ws) ==
    /\ hook.readyState[ws] = "CONNECTING"
    /\ hook' = [hook EXCEPT !.readyState[ws] = "OPEN",
                            !.wsConnected = TRUE,
                            !.error = NoError,
                            !.reconnectAttempts = 0,
                            !.scheduled = 0]
    /\ UNCHANGED backendVars

\* ws.onerror: the connection failed; the socket's close event follows.
OnError(ws) ==
    /\ hook.readyState[ws] \in {"CONNECTING", "OPEN"}
    /\ hook' = [hook EXCEPT !.readyState[ws] = "CLOSING",
                            !.error = ConnectionFailed,
                            !.wsConnected = FALSE]
    /\ UNCHANGED backendVars

\* ws.onclose
OnClose(ws) ==
    /\ hook.readyState[ws] # "NONE"
    /\ LET closed == [hook EXCEPT !.readyState[ws] = "NONE",
                                  !.wsConnected = FALSE,
                                  !.wsRef = NullRef]
       IN IF hook.isManualDisconnectRef
          THEN hook' = closed
          ELSE /\ CanAttemptReconnection(closed)
               /\ hook' = AttemptReconnection(closed)
    /\ UNCHANGED backendVars

\* The callback of setTimeout in attemptReconnection: connect()
ReconnectTimeout(id) ==
    /\ id \in hook.timers
    /\ CanConnect(hook)
    /\ hook' = Connect([hook EXCEPT !.timers = @ \ {id}])
    /\ UNCHANGED backendVars

\* handleVisibilityChange, the page being hidden ...
PageHidden ==
    /\ hook.visible
    /\ hook' = [hook EXCEPT !.visible = FALSE]
    /\ UNCHANGED backendVars

\* ... and visible again; the listener is there while the hook is mounted.
PageVisible ==
    /\ ~hook.visible
    /\ IF hook.mounted /\ ~hook.wsConnected
       THEN /\ CanConnect(hook)
            /\ hook' = Connect([hook EXCEPT !.visible = TRUE,
                                            !.isManualDisconnectRef = FALSE,
                                            !.stopped = FALSE])
       ELSE hook' = [hook EXCEPT !.visible = TRUE]
    /\ UNCHANGED backendVars

NextHook ==
    \/ MountEffect
    \/ Unmount
    \/ Disconnect
    \/ \E ws \in WebSockets : OnOpen(ws)
    \/ \E ws \in WebSockets : OnError(ws)
    \/ \E ws \in WebSockets : OnClose(ws)
    \/ \E id \in Timers : ReconnectTimeout(id)
    \/ PageHidden
    \/ PageVisible

SpecHook == InitContext /\ [][NextHook]_vars

(***************************************************************************)
(* The data migration endpoints of server.js and the commands of           *)
(* scripts/sqlite-handler.js, on the tables messages and                   *)
(* processed_embeddings and the collection conversation_embeddings.        *)
(***************************************************************************)
Id(n) == Str(<<"m", n>>)

\* The table messages.  `quality` stands for the conditions of the smart
\* filtering query on the row's content and on its chat (content longer
\* than 5 characters, no auto-response, no personal chat, a business chat).
\* Rows are identified by (id, chat_jid): two chats hold a message m1.
MigrationMessages ==
    {[id |-> Id("1"), chat_jid |-> "chatA", timestamp |-> 1, quality |-> TRUE],
     [id |-> Id("1"), chat_jid |-> "chatB", timestamp |-> 1, quality |-> TRUE],
     [id |-> Id("2"), chat_jid |-> "chatA", timestamp |-> 1, quality |-> TRUE],
     [id |-> Id("3"), chat_jid |-> "chatA", timestamp |-> 2, quality |-> FALSE]}

\* ORDER BY c.name, m.timestamp ASC: the orders SQLite may deliver.
NameBefore(a, b) == ChatName(a) = "Alice" /\ ChatName(b) = "Bob"
OrderedByNameAndTimestamp(S) ==
    {s \in [1..Cardinality(S) -> S] :
        /\ \A i, j \in 1..Cardinality(S) : i # j => s[i] # s[j]
        /\ \A i, j \in 1..Cardinality(S) :
              i < j => \/ NameBefore(s[i].chat_jid, s[j].chat_jid)
                       \/ /\ s[i].chat_jid = s[j].chat_jid
                          /\ s[i].timestamp <= s[j].timestamp}

\* parseInt(limit) || 100
DefaultPendingLimit == 100
PendingLimit(limit) ==
    IF limit.t = "undefined" THEN DefaultPendingLimit
    ELSE LET n == ParseInt(limit)
         IN IF Truthy(n) THEN n.v ELSE DefaultPendingLimit

\* Values of the limit query parameter and of the command's parameter.
PendingLimitValues ==
    {Undefined, Str(<<"1">>), Str(<<"2">>), Str(<<"0">>), Str(<<"-", "1">>), Str(<<"a">>)}

\* rows.map(row => ({message_id: row.id, chat_jid: row.chat_jid, ...}))
PendingMessage(row) == [message_id |-> row.id, chat_jid |-> row.chat_jid]

\* The result of a pending query: status, count and the transformed rows.
PendingResult(list) ==
    [status |-> "success", count |-> Len(list),
     messages |-> [i \in 1..Len(list) |-> PendingMessage(list[i])]]

\* GET /api/messages/pending: the row lists its query may deliver.  The
\* query skips the ids recorded in processed_embeddings.
ServerPendingRows(table, processed, limit) ==
    {Limit(s, limit) :
        s \in OrderedByNameAndTimestamp({m \in table : m.quality /\ m.id \notin processed.ids})}

\* getPendingMessages of sqlite-handler.js: the same query without the
\* condition on processed_embeddings.
HandlerPendingRows(table, limit) ==
    {Limit(s, limit) : s \in OrderedByNameAndTimestamp({m \in table : m.quality})}

\* Request bodies of POST /api/embeddings/store.
StoreBodies ==
    [message_id : {Undefined, Id("1"), Id("2")},
     content : {Undefined, Str(<<"h", "i">>)},
     embedding : {Undefined, Num(5), Arr(<<1>>)}]

\* Variant of MissingRequiredFields without Array.isArray.
MissingRequiredFieldsAnyEmbedding(body) ==
    \/ ~Truthy(body.message_id)
    \/ ~Truthy(body.content)
    \/ ~Truthy(body.embedding)

\* !message_id || !content || !embedding || !Array.isArray(embedding)
MissingRequiredFields(body) ==
    \/ ~Truthy(body.message_id)
    \/ ~Truthy(body.content)
    \/ ~Truthy(body.embedding)
    \/ body.embedding.t # "array"

\* Variant of AfterCollection that goes from the collection straight to the
\* processed record.
AfterCollectionMarkFirst(n) == [n EXCEPT !.pc = "markProcessed", !.store = @ + 1]

\* The first .then of the store handler: with the collection at hand,
\* collection.add is sent.
AfterCollection(n) == [n EXCEPT !.pc = "add", !.index = @ + 1]

\* The answer of a migration operation: an HTTP response of the server, or
\* what the command of sqlite-handler.js resolves to or rejects with.
Answer(kind, status, value, n) ==
    IF kind \in {"postStore", "getPending"}
    THEN [n EXCEPT !.pc = "done",
                   !.http = [t |-> "response", status |-> status, body |-> value]]
    ELSE [n EXCEPT !.pc = "done",
                   !.ret = IF status = 200 THEN Ok(value) ELSE Throw(value)]

\* The message id a marking operation records.
MessageIdOf(c) == IF c.kind = "postStore" THEN c.body.message_id ELSE c.param

InitStore ==
    /\ chromaClient = "client"
    /\ similarityThreshold = DefaultSimilarityThreshold
    /\ collection = Undefined
    /\ chromaHasCollection = FALSE
    /\ messages = MigrationMessages
    /\ pc = "idle"
    /\ call = NoCall
    /\ opts = NoOptions
    /\ query = Undefined
    /\ results = Undefined
    /\ ret = Undefined
    /\ rows = Undefined
    /\ embedding = Undefined
    /\ http = Undefined
    /\ embedCalls = 0
    /\ indexCalls = 0
    /\ storeCalls = 0
    /\ db = "null"
    /\ storeUp = TRUE
    /\ processed_embeddings = NoTable
    /\ conversation_embeddings = {}
    /\ SideInit

\* POST /api/embeddings/store: validation, then getOrCreateCollection.
HttpPostStore(body) ==
    /\ pc = "idle"
    /\ call' = [kind |-> "postStore", body |-> body]
    /\ IF MissingRequiredFields(body)
       THEN Apply(Answer("postStore", 400, "Missing required fields", Here))
       ELSE Apply([Here EXCEPT !.pc = "getOrCreateCollection", !.index = @ + 1])
    /\ UNCHANGED <<serviceVars, collection, chromaHasCollection, opts>>

GetOrCreateCollectionResolve ==
    /\ pc = "getOrCreateCollection"
    /\ Apply(AfterCollection(Here))
    /\ UNCHANGED <<serviceVars, collection, chromaHasCollection, call, opts>>

\* The .catch of the chain answers 500.
GetOrCreateCollectionReject ==
    /\ pc = "getOrCreateCollection"
    /\ Apply(Answer(call.kind, 500, "Failed to store embedding", Here))
    /\ UNCHANGED <<serviceVars, collection, chromaHasCollection, call, opts>>

\* collection.add resolved: the embedding is in the collection, and the
\* second .then issues CREATE TABLE IF NOT EXISTS and INSERT OR REPLACE.
AddResolve ==
    /\ pc = "add"
    /\ conversation_embeddings' = conversation_embeddings \cup {call.body.message_id}
    /\ Apply([Here EXCEPT !.pc = "markProcessed", !.store = @ + 1])
    /\ UNCHANGED <<chromaClient, similarityThreshold, messages, storeUp, sideVars,
                   processed_embeddings, collection, chromaHasCollection, call, opts>>

AddReject ==
    /\ pc = "add"
    /\ Apply(Answer(call.kind, 500, "Failed to store embedding", Here))
    /\ UNCHANGED <<serviceVars, collection, chromaHasCollection, call, opts>>

\* CREATE TABLE IF NOT EXISTS ran; an error is only logged.
CreateTableRun ==
    /\ pc = "markProcessed"
    /\ processed_embeddings' = IF storeUp THEN Table(processed_embeddings.ids)
                               ELSE processed_embeddings
    /\ Apply([Here EXCEPT !.pc = "insert"])
    /\ UNCHANGED <<chromaClient, similarityThreshold, messages, storeUp, sideVars,
                   conversation_embeddings, collection, chromaHasCollection, call, opts>>

\* INSERT OR REPLACE ran; its callback answers.
InsertRun ==
    /\ pc = "insert"
    /\ IF storeUp /\ processed_embeddings.exists
       THEN /\ processed_embeddings' =
                  Table(processed_embeddings.ids \cup {MessageIdOf(call)})
            /\ Apply(Answer(call.kind, 200, "success", Here))
       ELSE /\ UNCHANGED processed_embeddings
            /\ Apply(Answer(call.kind, 500, "Failed to mark as processed", Here))
    /\ UNCHANGED <<chromaClient, similarityThreshold, messages, storeUp, sideVars,
                   conversation_embeddings, collection, chromaHasCollection, call, opts>>

\* The store handler issues both statements without db.serialize, so sqlite3
\* may run the INSERT before the CREATE TABLE.
InsertBeforeCreate ==
    /\ pc = "markProcessed" /\ call.kind = "postStore"
    /\ IF storeUp /\ processed_embeddings.exists
       THEN /\ processed_embeddings' =
                  Table(processed_embeddings.ids \cup {MessageIdOf(call)})
            /\ Apply(Answer(call.kind, 200, "success", Here))
       ELSE /\ processed_embeddings' = IF storeUp THEN Table(processed_embeddings.ids)
                                       ELSE processed_embeddings
            /\ Apply(Answer(call.kind, 500, "Failed to mark as processed", Here))
    /\ UNCHANGED <<chromaClient, similarityThreshold, messages, storeUp, sideVars,
                   conversation_embeddings, collection, chromaHasCollection, call, opts>>

\* GET /api/messages/pending?limit=..: the query is sent.
HttpGetPending(limit) ==
    /\ pc = "idle"
    /\ call' = [kind |-> "getPending", requested |-> limit, limit |-> PendingLimit(limit)]
    /\ Apply([Here EXCEPT !.pc = "pendingQuery", !.store = @ + 1])
    /\ UNCHANGED <<serviceVars, collection, chromaHasCollection, opts>>

\* node sqlite-handler.js pending [limit]
CommandPending(param) ==
    /\ pc = "idle"
    /\ call' = [kind |-> "pending", requested |-> param, limit |-> PendingLimit(param)]
    /\ Apply([Here EXCEPT !.pc = "pendingQuery", !.store = @ + 1])
    /\ UNCHANGED <<serviceVars, collection, chromaHasCollection, opts>>

\* The rows arrive.  The server's query needs processed_embeddings to exist.
PendingResolve ==
    /\ pc = "pendingQuery" /\ storeUp
    /\ call.kind = "getPending" => processed_embeddings.exists
    /\ \E list \in (IF call.kind = "getPending"
                    THEN ServerPendingRows(messages, processed_embeddings, call.limit)
                    ELSE HandlerPendingRows(messages, call.limit)) :
          Apply(Answer(call.kind, 200, PendingResult(list), Here))
    /\ UNCHANGED <<serviceVars, collection, chromaHasCollection, call, opts>>

PendingReject ==
    /\ pc = "pendingQuery"
    /\ ~storeUp \/ (call.kind = "getPending" /\ ~processed_embeddings.exists)
    /\ Apply(Answer(call.kind, 500, "Database query failed", Here))
    /\ UNCHANGED <<serviceVars, collection, chromaHasCollection, call, opts>>

\* node sqlite-handler.js mark-processed <message_id>: without the
\* parameter the usage is printed and the process exits with 1.
CommandMarkProcessed(param) ==
    /\ pc = "idle"
    /\ call' = [kind |-> "mark-processed", param |-> param]
    /\ IF Truthy(param)
       THEN Apply([Here EXCEPT !.pc = "markProcessed", !.store = @ + 1])
       ELSE Apply(Answer("mark-processed", 1, "Usage", Here))
    /\ UNCHANGED <<serviceVars, collection, chromaHasCollection, opts>>

NextStore ==
    \/ \E body \in StoreBodies : HttpPostStore(body)
    \/ GetOrCreateCollectionResolve
    \/ GetOrCreateCollectionReject
    \/ AddResolve
    \/ AddReject
    \/ CreateTableRun
    \/ InsertRun
    \/ InsertBeforeCreate
    \/ \E limit \in PendingLimitValues : HttpGetPending(limit)
    \/ \E param \in PendingLimitValues : CommandPending(param)
    \/ PendingResolve
    \/ PendingReject
    \/ \E param \in {Undefined, Id("1"), Id("2"), Id("3")} : CommandMarkProcessed(param)
    \/ StoreFails
    \/ StoreRecovers
    \/ Return

SpecStore == InitStore /\ [][NextStore]_vars


(***************************************************************************)
(* Properties of the similarity search                                     *)
(***************************************************************************)
\* The neighbour lists of the index response of the call in flight.
ResponseDocs == At(results.documents, 0).v
ResponseDists == At(results.distances, 0).v
\* The response carries a list of documents and a list of distances.
FullResponse ==
    /\ results.t = "results"
    /\ Truthy(results.documents) /\ Truthy(At(results.documents, 0))
    /\ Truthy(results.metadatas) /\ Truthy(At(results.metadatas, 0))
    /\ Truthy(results.distances) /\ Truthy(At(results.distances, 0))
Returned(doc) == \E k \in 1..Len(ret.v) : ret.v[k].document = doc
ToNumber(x) == IF x.t = "number" THEN x.v ELSE 0

\* C1 as stated: every result findSimilar returns carries a similarity score
\* that is at least the configured threshold, whatever the options.
C1_EveryResultAtLeastThreshold ==
    ret.t = "ok" =>
        \A i \in 1..Len(ret.v) :
            /\ ret.v[i].similarity.t = "number"
            /\ ret.v[i].similarity.v >= similarityThreshold

\* C1 (amended): with includeDistances true (the default) and a positive
\* configured threshold, every returned result has a numeric similarity of
\* at least the threshold.  With includeDistances false no result is
\* dropped and every similarity is null.
C1_ThresholdWhenDistancesIncluded ==
    /\ (ret.t = "ok" /\ IncludeDistancesOf(opts) /\ similarityThreshold > 0) =>
          \A i \in 1..Len(ret.v) :
              /\ ret.v[i].similarity.t = "number"
              /\ ret.v[i].similarity.v >= similarityThreshold
    /\ (ret.t = "ok" /\ ~IncludeDistancesOf(opts) /\ FullResponse) =>
          /\ Len(ret.v) = Len(ResponseDocs)
          /\ \A i \in 1..Len(ret.v) : ret.v[i].similarity = Null

\* A call that dropped one of two neighbours and kept one exactly at the threshold.
C1_Witness ==
    /\ ret.t = "ok" /\ IncludeDistancesOf(opts) /\ FullResponse
    /\ Len(ResponseDocs) = 2 /\ Len(ret.v) = 1
    /\ ret.v[1].similarity = Num(similarityThreshold)

\* C2 as stated: the returned list is in descending order of similarity,
\* whatever the order of the index response.
C2_SortedDescending ==
    ret.t = "ok" =>
        \A i \in 1..(Len(ret.v) - 1) :
            ToNumber(ret.v[i].similarity) >= ToNumber(ret.v[i + 1].similarity)

\* C2 (amended): findSimilar does not sort; the returned results are in the
\* order in which the index returned their neighbours, and are in descending
\* order of similarity when the index returned the neighbours in ascending
\* order of distance and every returned result has a numeric score.
C2_KeepsIndexOrder ==
    (ret.t = "ok" /\ Len(ret.v) > 0) =>
        /\ \E f \in [1..Len(ret.v) -> 1..Len(ResponseDocs)] :
              /\ \A i, j \in 1..Len(ret.v) : i < j => f[i] < f[j]
              /\ \A i \in 1..Len(ret.v) : ret.v[i].document = ResponseDocs[f[i]]
        /\ ( /\ FullResponse
             /\ \A i \in 1..(Len(ResponseDists) - 1) :
                    ResponseDists[i].v <= ResponseDists[i + 1].v
             /\ \A i \in 1..Len(ret.v) : ret.v[i].similarity.t = "number" )
           => \A i \in 1..(Len(ret.v) - 1) :
                  ret.v[i].similarity.v >= ret.v[i + 1].similarity.v

\* Two results returned in the index's order, the less similar one first.
C2_Witness ==
    /\ ret.t = "ok" /\ Len(ret.v) = 2
    /\ ret.v[1].similarity.t = "number" /\ ret.v[2].similarity.t = "number"
    /\ ret.v[1].similarity.v < ret.v[2].similarity.v
    /\ ret.v[1].document = ResponseDocs[1]

\* C3: with distances included, every neighbour whose 1 - d is at least the
\* threshold is returned, with similarity 1 - d (an exact match at distance 0
\* with similarity 1).
C3_EveryNeighbourAtThresholdReturned ==
    (ret.t = "ok" /\ IncludeDistancesOf(opts) /\ FullResponse) =>
        \A i \in 1..Len(ResponseDocs) :
            (i <= Len(ResponseDists) /\ One - ResponseDists[i].v >= similarityThreshold)
            => \E k \in 1..Len(ret.v) :
                  /\ ret.v[k].document = ResponseDocs[i]
                  /\ ret.v[k].similarity = Num(One - ResponseDists[i].v)

\* C4: every query sent on behalf of findSimilarBusinessResponses (called
\* directly or by getSuggestions) carries the filter is_business_response = true,
\* and no customer's message is returned or suggested.
C4_BusinessFilterOnEveryQuery ==
    call.kind \in {"findSimilarBusinessResponses", "getSuggestions"} =>
        /\ query.t = "query" => query.where = BusinessFilter
        /\ ret.t = "ok" => \A i \in 1..Len(ret.v) : ret.v[i].document \in BusinessDocs
        /\ (http.t = "response" /\ http.status = 200) =>
              \A i \in 1..Len(http.suggestions) : http.suggestions[i] \in BusinessDocs

\* The caller supplied a whereClause of its own and got results.
C4_Witness ==
    /\ call.kind = "findSimilarBusinessResponses"
    /\ call.options.whereClause = CustomerFilter
    /\ query.t = "query"
    /\ ret.t = "ok" /\ Len(ret.v) > 0

\* The threshold the caller asked for: options.threshold when given.
RequestedThreshold ==
    IF opts.threshold.t = "number" THEN opts.threshold.v ELSE similarityThreshold

\* C5: the threshold that decides which neighbours are dropped is the
\* per-call override when one is given, the configured default otherwise.
C5_OverrideThresholdUsed ==
    (ret.t = "ok" /\ IncludeDistancesOf(opts) /\ FullResponse) =>
        \A i \in 1..Len(ResponseDocs) :
            Returned(ResponseDocs[i])
            <=> ~JsLess(SimilarityOf(TRUE, At(At(results.distances, 0), i - 1)),
                        RequestedThreshold)

(***************************************************************************)
(* Properties of getSuggestions                                            *)
(***************************************************************************)
\* The message is missing or is a string that is empty after trimming.
MessageMissingOrBlank(m) ==
    m.t = "undefined" \/ (m.t = "string" /\ Trim(m.v) = <<>>)

\* C6: a missing or blank message is answered 400 MISSING_MESSAGE without any
\* call to the embedding function, the vector index or the message store.
C6_BlankMessageRejectedWithoutIO ==
    (call.kind = "getSuggestions" /\ MessageMissingOrBlank(call.message)) =>
        /\ pc = "done"
        /\ http = ErrorResponse(400, "MISSING_MESSAGE")
        /\ embedCalls = 0 /\ indexCalls = 0 /\ storeCalls = 0

\* A message of two blanks was rejected.
C6_Witness ==
    /\ call.kind = "getSuggestions"
    /\ call.message = Str(<<" ", " ">>)
    /\ http.t = "response" /\ http.status = 400

C8_ConversationFailureDegrades ==
    (call.kind = "getSuggestions" /\ rows.t = "throw") =>
        /\ http.t = "response"
        /\ http.status = 200
        /\ http.suggestions = DocumentsOf(ret.v)
        /\ http.similar_conversations = <<>>

\* The index response holds no document.
NoDocuments(r) ==
    \/ ~Truthy(r.documents)
    \/ ~Truthy(At(r.documents, 0))
    \/ At(r.documents, 0).v = <<>>

\* C9: when the index returned no documents, findSimilar returned the empty
\* list and threw nothing.
C9_EmptyResponseGivesEmptyList ==
    (pc = "done" /\ call.kind \in ServiceKinds /\ results.t = "results"
       /\ NoDocuments(results))
    => ret = Ok(<<>>)

(***************************************************************************)
(* Properties of the conversation-context query                            *)
(***************************************************************************)
\* The list is a window on conversation c.chatJid of `table` that ends at
\* the message c.messageId: at most 2 * contextSize + 1 rows of the table,
\* all of that conversation and none later than the target; no row left out
\* is more recent than a row taken while the window has room; oldest first.
ContextWindow(list, table, c) ==
    LET target == {m \in table : m.id = c.messageId /\ m.chat_jid = c.chatJid}
        eligible == {m \in table : /\ m.chat_jid = c.chatJid
                                   /\ \E t \in target : m.timestamp <= t.timestamp}
        taken == {list[i] : i \in 1..Len(list)}
    IN /\ Len(list) <= 2 * c.contextSize + 1
       /\ taken \subseteq eligible
       /\ Cardinality(taken) = Len(list)
       /\ Len(list) = Min(2 * c.contextSize + 1, Cardinality(eligible))
       /\ \A m \in eligible \ taken : \A k \in taken : m.timestamp <= k.timestamp
       /\ \A i, j \in 1..Len(list) : i < j => list[i].timestamp <= list[j].timestamp

\* C10: what getConversationContext returns is at most 2 * contextSize + 1
\* messages, all of the given conversation and with a timestamp at most the
\* target's, the most recent such messages, in ascending timestamp order.
C10_ContextWindow ==
    [][(pc = "contextQuery" /\ ret'.t = "ok") => ContextWindow(ret'.v, messages', call')]_vars

\* A window of three messages that leaves an older message of the
\* conversation out.
C10_Witness ==
    /\ pc = "done" /\ call.kind = "getConversationContext" /\ ret.t = "ok"
    /\ call.contextSize = 1
    /\ Len(ret.v) = 3
    /\ \E m \in messages : /\ m.chat_jid = call.chatJid
                           /\ m.timestamp < ret.v[1].timestamp
                           /\ \A i \in 1..3 : ret.v[i] # m
    /\ ret.v[1].timestamp < ret.v[3].timestamp

\* The target of the context call in flight is a row of the conversation.
TargetExists(table, c) ==
    \E m \in table : m.id = c.messageId /\ m.chat_jid = c.chatJid

\* C11: whenever the target message exists in the conversation, the list
\* getConversationContext returns contains the target message, also when
\* several messages share the target's timestamp.
C11_TargetContained ==
    [][(pc = "contextQuery" /\ ret'.t = "ok" /\ TargetExists(messages, call))
          => \E i \in 1..Len(ret'.v) : /\ ret'.v[i].id = call.messageId
                                       /\ ret'.v[i].chat_jid = call.chatJid]_vars

\* C12: getConversationContext fails when messageId does not exist in the
\* given conversation; it returns no message list in that case.
C12_MissingTargetFails ==
    [][(pc = "contextQuery" /\ ~TargetExists(messages, call)) => ret'.t = "throw"]_vars

\* C13: for a conversation that holds fewer than 2 * contextSize + 1
\* messages, the call returns all messages of the conversation, in
\* chronological order.
C13_SmallConversationReturnedWhole ==
    [][(/\ pc = "contextQuery" /\ ret'.t = "ok" /\ TargetExists(messages, call)
        /\ Cardinality({m \in messages : m.chat_jid = call.chatJid})
              < 2 * call.contextSize + 1)
          => /\ {ret'.v[i] : i \in 1..Len(ret'.v)}
                   = {m \in messages : m.chat_jid = call.chatJid}
             /\ \A i, j \in 1..Len(ret'.v) :
                   i < j => ret'.v[i].timestamp <= ret'.v[j].timestamp]_vars

\* The chat_jids of the rows in the order in which they first occur.
RECURSIVE FirstSeen(_)
FirstSeen(list) ==
    IF list = <<>> THEN <<>>
    ELSE LET before == FirstSeen(SubSeq(list, 1, Len(list) - 1))
             jid == list[Len(list)].chat_jid
         IN IF \E i \in 1..Len(before) : before[i] = jid THEN before
            ELSE Append(before, jid)

\* The rows of one chat, in the order of the list.
RECURSIVE OfChat(_, _)
OfChat(list, jid) ==
    IF list = <<>> THEN <<>>
    ELSE IF Head(list).chat_jid = jid THEN <<Head(list)>> \o OfChat(Tail(list), jid)
    ELSE OfChat(Tail(list), jid)

C15_EarlierCallsChangeNothing ==
    [][(/\ call.kind = "getSuggestions" /\ pc \in {"connect", "getMessages"}
        /\ storeUp /\ pc' = "done")
          => http'.status = 200]_vars

\* C16: every getSuggestions request eventually ends with a response, even
\* when the embedding process or the index query never completes.
C16_EveryRequestAnswered ==
    [](call.kind = "getSuggestions" => <>(http.t = "response"))

\* C17: calculateCosineSimilarity fails with an error for every pair of
\* vectors of different lengths and returns no number in that case.
C17_DifferentLengthsThrow ==
    (/\ pc = "done" /\ call.kind = "calculateCosineSimilarity"
     /\ Len(call.vectorA) # Len(call.vectorB))
        => ret = Throw("Vectors must have the same length")

\* The longer vector comes second, as in the unit test, and the shorter one
\* is not the zero vector.
C17_Witness ==
    /\ pc = "done" /\ call.kind = "calculateCosineSimilarity"
    /\ call.vectorA = <<1, 2>> /\ Len(call.vectorB) = 3
    /\ ret.t = "throw"

\* The messages a pending operation that succeeded has returned.
PendingReturned ==
    IF call.kind = "getPending"
    THEN IF http.status = 200 THEN http.body.messages ELSE <<>>
    ELSE IF ret.t = "ok" THEN ret.v.messages ELSE <<>>

\* C18: once a message has been marked processed, no later GET
\* /api/messages/pending and no later `sqlite-handler.js pending` returns it.
C18_PendingSkipsProcessed ==
    (pc = "done" /\ call.kind \in {"getPending", "pending"}) =>
        \A i \in 1..Len(PendingReturned) :
            PendingReturned[i].message_id \notin processed_embeddings.ids

\* C19 as stated: in every reachable state a message recorded in
\* processed_embeddings has its embedding in the vector store.
C19_ProcessedHaveEmbeddings ==
    processed_embeddings.ids \subseteq conversation_embeddings

\* C19: POST /api/embeddings/store records a message in processed_embeddings
\* only when its embedding is in the vector store, records no other message,
\* and when getOrCreateCollection or collection.add fails it records nothing
\* and answers with an error.
C19_StoreMarksOnlyAfterAdd ==
    [][call.kind = "postStore" =>
         /\ \A id \in processed_embeddings'.ids \ processed_embeddings.ids :
               id \in conversation_embeddings /\ id = call.body.message_id
         /\ (pc \in {"getOrCreateCollection", "add"} /\ pc' = "done") =>
               /\ http'.status = 500
               /\ processed_embeddings' = processed_embeddings]_vars

\* A store request has succeeded: its message is recorded and embedded.
C19_Witness ==
    /\ pc = "done" /\ call.kind = "postStore" /\ http.status = 200
    /\ call.body.message_id \in processed_embeddings.ids
    /\ call.body.message_id \in conversation_embeddings

\* message_id, content or embedding is missing, or embedding is no array.
BodyRejected(body) ==
    \/ body.message_id = Undefined
    \/ body.content = Undefined
    \/ body.embedding = Undefined
    \/ body.embedding.t # "array"

\* C20: POST /api/embeddings/store with message_id, content or embedding
\* missing, or with an embedding that is not an array, answers 400 and
\* changes nothing: no vector-store call, no statement, no record.
C20_InvalidBodyRejected ==
    /\ []((call.kind = "postStore" /\ BodyRejected(call.body)) =>
             /\ pc = "done" /\ http.status = 400
             /\ indexCalls = 0 /\ storeCalls = 0)
    /\ [][(call'.kind = "postStore" /\ BodyRejected(call'.body)) =>
             UNCHANGED <<processed_embeddings, conversation_embeddings>>]_vars

\* All fields are present and the embedding is a number.
C20_Witness ==
    /\ pc = "done" /\ call.kind = "postStore" /\ http.status = 400
    /\ call.body.message_id = Id("1") /\ call.body.content # Undefined
    /\ call.body.embedding = Num(5)

\* The number a limit parameter asks for; 100 when it is absent.
LimitAskedFor(v) ==
    CASE v = Str(<<"0">>) -> 0
      [] v = Str(<<"1">>) -> 1
      [] v = Str(<<"2">>) -> 2
      [] v = Str(<<"-", "1">>) -> 0 - 1
      [] OTHER -> 100

\* C21: GET /api/messages/pending returns at most `limit` messages for every
\* value of the limit parameter, at most 100 when it is absent, and `count`
\* is the number of messages returned.
C21_AtMostLimitAndCounted ==
    (pc = "done" /\ call.kind = "getPending" /\ http.status = 200) =>
        /\ Len(http.body.messages) <= LimitAskedFor(call.requested)
        /\ http.body.count = Len(http.body.messages)

\* C22: every statement Database.query and Database.run execute runs on a
\* connection that opened successfully: they connect when no connection is
\* open, again after a connect() that failed, and again after close().
C22_StatementsRunOnOpenConnection ==
    pc = "statement" => db = "open"

\* C23: whatever the interleaving, a findSimilar/addMessage call that started
\* while the collection handle was unset and the collection did not exist
\* ends with the handle set and without having failed.
C23_LazyInitSafeUnderConcurrency ==
    \A t \in TaskIds :
        tasks[t].pc = "done" /\ tasks[t].unset
            => tasks[t].ret.t = "ok" /\ Truthy(collection)

\* C24: a broadcastToAll call sends the message exactly once to every
\* registered client whose socket is OPEN, sends nothing to a registered
\* client whose socket is not OPEN and removes that client from the
\* registry; sockets that are not registered get nothing.
C24_BroadcastReachesOpenClients ==
    [][broadcasts' # broadcasts =>
         /\ \A id \in ClientIds :
               clients[id] # NoSocket =>
                   IF sockets[clients[id]].readyState = "OPEN"
                   THEN /\ sockets'[clients[id]].sent = sockets[clients[id]].sent + 1
                        /\ clients'[id] = clients[id]
                   ELSE /\ sockets'[clients[id]].sent = sockets[clients[id]].sent
                        /\ clients'[id] = NoSocket
         /\ \A s \in Sockets :
               (\A id \in ClientIds : clients[id] # s) =>
                   sockets'[s].sent = sockets[s].sent]_vars

\* C24: after a client's close or error event that client is not in the
\* registry.
C24_ClosedClientsUnregistered ==
    \A id \in ClientIds :
        clients[id] # NoSocket =>
            sockets[clients[id]].events \cap {"close", "error"} = {}

\* C24: both parts.
C24_Registry ==
    /\ C24_BroadcastReachesOpenClients
    /\ []C24_ClosedClientsUnregistered

\* A broadcast was made while one registered socket was OPEN and another
\* registered socket was not, and a socket has had its close event.
C24_Witness ==
    /\ broadcasts > 0
    /\ \E s1, s2 \in Sockets :
          /\ sockets[s1].readyState = "OPEN" /\ sockets[s1].sent = 2
          /\ clients[sockets[s1].clientId] = s1
          /\ sockets[s2].readyState = "CLOSING" /\ sockets[s2].sent = 1
          /\ sockets[s2].events = {}
          /\ clients[sockets[s2].clientId] = NoSocket

\* C25, first part: no more than MAX_RECONNECT_ATTEMPTS reconnections are
\* scheduled without a successful open in between.
C25_AttemptsBounded == hook.scheduled <= MAX_RECONNECT_ATTEMPTS

\* C25, second part: an open event sets the attempt counter to 0.
C25_OpenResets ==
    [][(\E ws \in WebSockets :
            hook.readyState[ws] = "CONNECTING" /\ hook'.readyState[ws] = "OPEN")
         => hook'.reconnectAttempts = 0]_vars

\* C25, third part: a connection lost with the limit reached schedules
\* nothing and sets the error 'Connection lost - please refresh the page'.
C25_LimitStops ==
    [][(/\ \E ws \in WebSockets :
               hook.readyState[ws] # "NONE" /\ hook'.readyState[ws] = "NONE"
        /\ ~hook.isManualDisconnectRef
        /\ hook.reconnectAttempts >= MAX_RECONNECT_ATTEMPTS)
         => /\ hook'.timers = hook.timers
            /\ \A ws \in WebSockets :
                  hook.readyState[ws] = "NONE" => hook'.readyState[ws] = "NONE"
            /\ hook'.error = ConnectionLost]_vars

\* C25: after a connection loss the hook schedules at most
\* MAX_RECONNECT_ATTEMPTS (5) reconnections without an open in between, an
\* open resets the counter to 0, and a loss at the limit schedules nothing
\* and sets the error 'Connection lost - please refresh the page'.
C25_ReconnectionLimited ==
    /\ []C25_AttemptsBounded
    /\ C25_OpenResets
    /\ C25_LimitStops

\* Five reconnections were scheduled without an open, the sixth connection
\* loss set the error, and nothing is pending.
C25_Witness ==
    /\ hook.scheduled = MAX_RECONNECT_ATTEMPTS
    /\ hook.reconnectAttempts = MAX_RECONNECT_ATTEMPTS
    /\ hook.error = ConnectionLost
    /\ hook.timers = {}
    /\ \A ws \in WebSockets : hook.readyState[ws] = "NONE"
    /\ ~hook.isManualDisconnectRef

\* C26: from a disconnect() or an unmount on, and until the hook is
\* mounted again or the page-visibility handler reconnects, no reconnection
\* is scheduled and no socket is created.
C26_StoppedStaysStopped ==
    [][(hook.stopped /\ hook'.stopped)
         => /\ hook'.timers \subseteq hook.timers
            /\ \A ws \in WebSockets :
                  hook.readyState[ws] = "NONE" => hook'.readyState[ws] = "NONE"]_vars

\* C27: at most one WebSocket of the hook is connecting or open, and wsRef
\* refers to it.
C27_OneLiveSocket ==
    \A ws \in WebSockets :
        hook.readyState[ws] \in {"CONNECTING", "OPEN"} =>
            /\ hook.wsRef = ws
            /\ \A other \in WebSockets :
                  hook.readyState[other] \in {"CONNECTING", "OPEN"} => other = ws

=========================================================================
